---- MODULE Spec2Model ----
(***************************************************************************)
(* Model of the attendance application (src/app.py): the time accounting   *)
(* function calculate_work_stats, the hour formatter format_hour and the   *)
(* monthly report generator generate_monthly_report_excel, the payroll     *)
(* estimate of staff_dashboard, and the attendance collection with the     *)
(* staff buttons and the admin edit form that write to it.                 *)
(*                                                                         *)
(* Representation.                                                         *)
(*  - A Python str is a sequence of one-character strings; "" is << >>.    *)
(*    None is the one-element sequence <<"None">>, which no str equals.    *)
(*  - A time of day is its minute number 0..1439; a datetime on the base   *)
(*    date or the day after is a minute number 0..2879.                    *)
(*  - A float number of hours that the code obtains as (whole minutes)/60  *)
(*    is represented by that whole number of minutes; 7.5 h is 450.        *)
(*    Where the binary rounding of the float decides the outcome           *)
(*    (format_hour) the IEEE-754 double rounding is computed explicitly.   *)
(***************************************************************************)
EXTENDS Integers, Sequences, FiniteSets, TLC

VARIABLES
    pc,            \* position of the running call
    clock_in, clock_out, break_start, break_end,   \* calculate_work_stats arguments
    stats,         \* calculate_work_stats return value <<net, overtime, night>>
    val,           \* format_hour argument
    formatted,     \* format_hour return value
    year, month, records,      \* generate_monthly_report_excel arguments
    last_day, att_map, day,    \* its locals
    total_net, total_over, total_night,
    rows,          \* worksheet data rows written so far (row 9 onwards)
    totals_row,    \* the worksheet totals row once written, << >> before
    emp, logs,     \* payroll estimate: the employee document and the month's logs
    work_hours,    \* its accumulated float work_hours
    est_pay,       \* its result
    attendance,    \* the documents of the 'attendance' collection, in store order
    session        \* per browser session: the script run in progress and what it read

vars == <<pc, clock_in, clock_out, break_start, break_end, stats, val, formatted,
          year, month, records, last_day, att_map, day,
          total_net, total_over, total_night, rows, totals_row,
          emp, logs, work_hours, est_pay, attendance, session>>

statsVars == <<clock_in, clock_out, break_start, break_end, stats>>
formatVars == <<val, formatted>>
reportVars == <<year, month, records, last_day, att_map, day,
                total_net, total_over, total_night, rows, totals_row>>
payrollVars == <<emp, logs, work_hours, est_pay>>
storeVars == <<attendance, session>>

---------------------------------------------------------------------------
(* Bounds of the model *)

\* clock times are taken within Slack minutes of each boundary time
Slack == 1
\* format_hour is applied to every whole number of minutes up to this one
MaxFormatMinutes == 1500
\* longest record list handed to the report generator
MaxRecords == 2
\* records are dated on days 1..MaxRecordDay of the reported month
MaxRecordDay == 2

---------------------------------------------------------------------------
(* Program constants, src/app.py:23-25, in minutes and hours *)

WORK_HOURS_PER_DAY == 450
NIGHT_START_HOUR == 22
NIGHT_END_HOUR == 5

MinutesPerDay == 1440

---------------------------------------------------------------------------
(* Python values *)

None == <<"None">>
EmptyStr == << >>

\* None where a float is expected (format_hour(None))
NoneFloat == -1

Max(a, b) == IF a >= b THEN a ELSE b
Min(a, b) == IF a <= b THEN a ELSE b

DigitChars == <<"0", "1", "2", "3", "4", "5", "6", "7", "8", "9">>

IsDigit(c) == \E i \in 1..10 : DigitChars[i] = c

DigitVal(c) == (CHOOSE i \in 1..10 : DigitChars[i] = c) - 1

DigitChar(n) == DigitChars[n + 1]

\* decimal digits of a natural number, most significant first
RECURSIVE Decimal(_)
Decimal(n) == IF n < 10 THEN <<DigitChar(n)>>
              ELSE Decimal(n \div 10) \o <<DigitChar(n % 10)>>

\* format spec 02 / %H / %M / %m / %d: zero-padded to at least two digits
Pad2(n) == IF n < 10 THEN <<"0">> \o Decimal(n) ELSE Decimal(n)

\* %Y of a year 1000..9999
Pad4(n) == IF n < 10 THEN <<"0", "0", "0">> \o Decimal(n)
           ELSE IF n < 100 THEN <<"0", "0">> \o Decimal(n)
           ELSE IF n < 1000 THEN <<"0">> \o Decimal(n)
           ELSE Decimal(n)

\* Python truthiness of an optional str: `if not clock_in`
Truthy(s) == s # None /\ s # EmptyStr

---------------------------------------------------------------------------
(* datetime.strptime(s, "%H:%M") *)

ValueError == -1
TypeError == -2

\* the value of a call that an exception left without returning
Raised == <<"raised">>

\* the hour 24 is let through
MatchHour_mut(h) ==
    /\ Len(h) \in {1, 2}
    /\ \A i \in 1..Len(h) : IsDigit(h[i])
    /\ Len(h) = 2 => DigitVal(h[1]) * 10 + DigitVal(h[2]) <= 24

\* %H is the pattern (2[0-3]|[0-1]\d|\d)
MatchHour(h) ==
    /\ Len(h) \in {1, 2}
    /\ \A i \in 1..Len(h) : IsDigit(h[i])
    /\ Len(h) = 2 => DigitVal(h[1]) * 10 + DigitVal(h[2]) <= 23

\* %M is the pattern ([0-5]\d|\d)
MatchMinute(m) ==
    /\ Len(m) \in {1, 2}
    /\ \A i \in 1..Len(m) : IsDigit(m[i])
    /\ Len(m) = 2 => DigitVal(m[1]) <= 5

RECURSIVE NumberOf(_)
NumberOf(d) == IF Len(d) = 0 THEN 0
               ELSE NumberOf(SubSeq(d, 1, Len(d) - 1)) * 10 + DigitVal(d[Len(d)])

\* the minute of the day; ValueError when the whole string does not match,
\* TypeError when the argument is not a str
strptime(s) ==
    IF s = None THEN TypeError ELSE
    LET cut == {i \in 1..Len(s) :
                   /\ s[i] = ":"
                   /\ MatchHour(SubSeq(s, 1, i - 1))
                   /\ MatchMinute(SubSeq(s, i + 1, Len(s)))}
    IN IF cut = {} THEN ValueError
       ELSE LET i == CHOOSE c \in cut : TRUE
            IN NumberOf(SubSeq(s, 1, i - 1)) * 60 + NumberOf(SubSeq(s, i + 1, Len(s)))

\* datetime.now().strftime("%H:%M") of a minute of the day
strftime_HM(t) == Pad2(t \div 60) \o <<":">> \o Pad2(t % 60)

---------------------------------------------------------------------------
(* calculate_work_stats *)

\* the day is added also when the two times are equal
DayCross_mut(t_in, t_out) == IF t_out <= t_in THEN t_out + MinutesPerDay ELSE t_out

\* `if t_out < t_in: t_out += timedelta(days=1)`
DayCross(t_in, t_out) == IF t_out < t_in THEN t_out + MinutesPerDay ELSE t_out

\* the hour 22 itself is not counted
IsNightHour_mut(h) == h > NIGHT_START_HOUR \/ h < NIGHT_END_HOUR

\* the night test on the hour of one minute of the loop
IsNightHour(h) == h >= NIGHT_START_HOUR \/ h < NIGHT_END_HOUR

\* the minute-by-minute loop: current runs from t_in while current < t_out
NightMinutes(t_in, t_out) ==
    Cardinality({current \in t_in..(t_out - 1) :
                    IsNightHour((current % MinutesPerDay) \div 60)})

\* break_hours, lines 72-83
BreakMinutes(bs, be) ==
    IF Truthy(bs) /\ Truthy(be)
    THEN LET b_in == strptime(bs)
             b_out == strptime(be)
         IN IF b_in = ValueError \/ b_out = ValueError THEN 0
            ELSE DayCross(b_in, b_out) - b_in
    ELSE 0

\* the difference is not cut off at zero
Overtime_mut(net) == net - WORK_HOURS_PER_DAY

\* overtime_hours, line 92
Overtime(net) == Max(0, net - WORK_HOURS_PER_DAY)

\* returns early only when both times are missing
MissingPair_mut(ci, co) == ~Truthy(ci) /\ ~Truthy(co)

\* `if not clock_in or not clock_out`
MissingPair(ci, co) == ~Truthy(ci) \/ ~Truthy(co)

calculate_work_stats(ci, co, bs, be) ==
    IF MissingPair(ci, co) THEN <<0, 0, 0>>
    ELSE LET t_in == strptime(ci)
             t_out0 == strptime(co)
         IN IF t_in = TypeError \/ t_out0 = TypeError THEN Raised
            ELSE IF t_in = ValueError \/ t_out0 = ValueError THEN <<0, 0, 0>>
            ELSE LET t_out == DayCross(t_in, t_out0)
                     break_hours == BreakMinutes(bs, be)
                     total_duration == t_out - t_in
                     net_work_hours == Max(0, total_duration - break_hours)
                     overtime_hours == Overtime(net_work_hours)
                     night_hours == NightMinutes(t_in, t_out)
                 IN <<net_work_hours, overtime_hours, night_hours>>

---------------------------------------------------------------------------
(* format_hour.  The argument m stands for the double nearest m/60.        *)

\* 2^n for n >= 0
RECURSIVE Pow2(_)
Pow2(n) == IF n = 0 THEN 1 ELSE 2 * Pow2(n - 1)

\* 2^n mod 60, by the period 4 of the powers of two modulo 60
Pow2Mod60(n) == IF n < 2 THEN Pow2(n)
                ELSE IF n % 4 = 0 THEN 16
                ELSE IF n % 4 = 1 THEN 32
                ELSE IF n % 4 = 2 THEN 4
                ELSE 8

\* binary exponent j of m/60: 2^j <= m/60 < 2^(j+1), for 1 <= m; j >= -6
FloatExp(m) == CHOOSE j \in -6..24 :
                   60 * Pow2(j + 6) <= 64 * m /\ 64 * m < 120 * Pow2(j + 6)

\* floor(log2 r) for r >= 1
Log2(r) == CHOOSE k \in 0..30 : Pow2(k) <= r /\ r < Pow2(k + 1)

\* val = m/60.0 is N * 2^(j-52) with N the integer nearest m * 2^(52-j) / 60;
\* the result is m * 2^(52-j) - 60 * N, which is positive when val < m/60.
\* A tie (remainder 30) cannot occur because 4 divides m * 2^(52-j).
RoundingDeficit(m) ==
    LET q == ((m % 60) * Pow2Mod60(52 - FloatExp(m))) % 60
    IN IF q < 30 THEN q ELSE q - 60

\* (val - hours) is exact, so (val - hours) * 60 is r - deficit * 2^(j-52)
\* before rounding; it rounds to a double below r exactly when it lies more
\* than half a unit in the last place below r.
ProductBelow(m) ==
    LET r == m % 60
        j == FloatExp(m)
        k == Log2(r)
        half == IF r = Pow2(k) THEN 1 ELSE 0
    IN /\ r > 0
       /\ RoundingDeficit(m) > 0
       /\ RoundingDeficit(m) * Pow2(j + 7 + half) > Pow2(k + 6)

\* minutes = int((val - hours) * 60)
MinutesPart(m) == IF ProductBelow(m) THEN (m % 60) - 1 ELSE m % 60

format_hour(m) ==
    IF m = NoneFloat \/ m = 0 THEN EmptyStr
    ELSE LET hours == m \div 60
             minutes == MinutesPart(m)
         IN Pad2(hours) \o <<":">> \o Pad2(minutes)

---------------------------------------------------------------------------
(* calendar and datetime.date, as generate_monthly_report_excel uses them *)

\* calendar.isleap
isleap(y) == y % 4 = 0 /\ (y % 100 # 0 \/ y % 400 = 0)

\* calendar.mdays
mdays == <<31, 28, 31, 30, 31, 30, 31, 31, 30, 31, 30, 31>>

\* calendar.monthrange(year, month)[1]; ValueError (IllegalMonthError) for a
\* month outside 1..12; a year outside 1..9999 is accepted
monthrange(y, m) ==
    IF m < 1 \/ m > 12 THEN ValueError
    ELSE mdays[m] + (IF m = 2 /\ isleap(y) THEN 1 ELSE 0)

\* the fallback of the bare except, lines 258-261
LastDay(y, m) == IF monthrange(y, m) = ValueError THEN 30 ELSE monthrange(y, m)

\* the date is built by formatting alone and nothing is raised
DateRaises_mut(y, m, d) == FALSE

\* datetime.date(year, month, day) raises ValueError, line 274
DateRaises(y, m, d) ==
    \/ y < 1 \/ y > 9999
    \/ m < 1 \/ m > 12
    \/ d < 1 \/ d > monthrange(y, m)

RECURSIVE SumTo(_, _)
SumTo(f, n) == IF n = 0 THEN 0 ELSE SumTo(f, n - 1) + f[n]

\* date.toordinal(): days from 0001-01-01, which is day 1
toordinal(y, m, d) ==
    LET py == y - 1
        before_year == py * 365 + py \div 4 - py \div 100 + py \div 400
        before_month == SumTo(mdays, Min(Max(m - 1, 0), 12))
                            + (IF m > 2 /\ isleap(y) THEN 1 ELSE 0)
    IN before_year + before_month + d

\* date.weekday(): Monday is 0
weekday(y, m, d) == (toordinal(y, m, d) + 6) % 7

\* the labels of weekdays_jp, Monday first
weekdays_jp == <<"getsu", "ka", "sui", "moku", "kin", "do", "nichi">>

\* date_obj.strftime("%Y-%m-%d"), also get_today_str and str(date)
strftime_Ymd(y, m, d) == Pad4(y) \o <<"-">> \o Pad2(m) \o <<"-">> \o Pad2(d)

---------------------------------------------------------------------------
(* generate_monthly_report_excel *)

\* a field of an attendance document is None when the document lacks the key
\* d.get(key, '')
GetOrEmpty(v) == IF v = None THEN EmptyStr ELSE v

\* the indexes of the records that carry a date
IndexesOf(recs, date) == {i \in 1..Len(recs) : recs[i].date = date}

MaxOf(S) == CHOOSE x \in S : \A z \in S : z <= x
MinOf(S) == CHOOSE x \in S : \A z \in S : x <= z

\* the entry that survives in {r['date']: r for r in records}: each later
\* record of a date replaces the earlier one
PickIndex(S) == MaxOf(S)

\* att_map, line 264
AttMap(recs) ==
    [date \in {recs[i].date : i \in 1..Len(recs)} |->
        recs[PickIndex(IndexesOf(recs, date))]]

\* the loop ends one day early
LoopContinues_mut(d, last) == d < last

\* `for day in range(1, last_day + 1)`
LoopContinues(d, last) == d <= last

\* the total is overwritten instead of added to
Accumulate_mut(total, v) == v

\* `total_net += net`, lines 309-311
Accumulate(total, v) == total + v

\* the worksheet row of a day.  F, I and J hold the hours value that the code
\* hands to format_hour for the cell; NoneFloat and None are cells not written.
DayRow(y, m, d, map) ==
    LET date_str == strftime_Ymd(y, m, d)
        base == [A |-> d, B |-> weekdays_jp[weekday(y, m, d) + 1]]
    IN IF date_str \in DOMAIN map
       THEN LET r == map[date_str]
                st == calculate_work_stats(r.clock_in, r.clock_out,
                                           r.break_start, r.break_end)
            IN base @@ [C |-> GetOrEmpty(r.clock_in), D |-> GetOrEmpty(r.clock_out),
                        E |-> IF Truthy(r.break_start)
                              THEN r.break_start \o <<"~">> ELSE None,
                        F |-> st[1], I |-> st[2], J |-> st[3],
                        filled |-> TRUE]
       ELSE base @@ [C |-> None, D |-> None, E |-> None,
                     F |-> NoneFloat, I |-> NoneFloat, J |-> NoneFloat,
                     filled |-> FALSE]

---------------------------------------------------------------------------
(* Float arithmetic on hours.  A double that the code reaches from whole    *)
(* minutes is the record [m, e]: its exact value is (m * 2^58 - e) /        *)
(* (60 * 2^58) hours, m the whole minutes that exact arithmetic would give   *)
(* and e the deficit that binary rounding has left, in units of 2^-58 / 60   *)
(* hour.  Every double of 1/60 hour and more is a whole number of units.     *)

FloatZero == [m |-> 0, e |-> 0]

\* 2^n mod 120 for n >= 3, by the period 4 of the powers of two modulo 120
Pow2Mod120(n) == IF n % 4 = 3 THEN 8
                 ELSE IF n % 4 = 0 THEN 16
                 ELSE IF n % 4 = 1 THEN 32
                 ELSE 64

\* the double nearest to the exact value (M * 2^58 - E) / (60 * 2^58), M >= 1,
\* ties to even.  With j the binary exponent of the value, the doubles are the
\* multiples of 2^(j-52), so that the numerator is rounded to a multiple of
\* D = 60 * 2^(j+6); the exponent is one less than that of M/60 when M/60 is a
\* power of two and the value lies below it.
RoundFloat(M, E) ==
    LET j0 == FloatExp(M)
        j == IF 64 * M = 60 * Pow2(j0 + 6) /\ E > 0 THEN j0 - 1 ELSE j0
        D == 60 * Pow2(j + 6)
        a == (Pow2(j + 6) * ((M * Pow2Mod60(52 - j)) % 60) - E) % D
        a2 == (Pow2(j + 6) * ((M * Pow2Mod120(52 - j)) % 120) - E) % (2 * D)
        rem == IF 2 * a < D THEN a
               ELSE IF 2 * a > D THEN a - D
               ELSE IF a2 >= D THEN a - D
               ELSE a
    IN [m |-> M, e |-> E + rem]

\* minutes / 60.0, as timedelta.total_seconds() / 3600 gives it
FloatOf(minutes) == IF minutes = 0 THEN FloatZero ELSE RoundFloat(minutes, 0)

\* x + y in float
FloatAdd(x, y) == IF x.m + y.m = 0 THEN FloatZero
                  ELSE RoundFloat(x.m + y.m, x.e + y.e)

\* max(0.0, x - y) in float, for x and y that FloatOf gives
FloatSubMax0(x, y) == IF x.m - y.m <= 0 THEN FloatZero
                      ELSE RoundFloat(x.m - y.m, x.e - y.e)

\* int(x * rate) for an integer rate >= 0: when the exact product is a whole
\* number X, the float product is below X exactly when the deficit of x times
\* rate exceeds half the distance from X to the double before it
IntOfProduct(x, rate) ==
    LET X == (x.m * rate) \div 60
        k == Log2(X)
        half == IF X = Pow2(k) THEN 2 ELSE 1
    IN IF (x.m * rate) % 60 # 0 \/ X = 0 THEN X
       ELSE IF x.e > 0 /\ rate * x.e * half > 60 * Pow2(k + 5) THEN X - 1
       ELSE X

---------------------------------------------------------------------------
(* calculate_work_stats in float, and the payroll estimate of staff_dashboard *)

\* net_work_hours of a document as the float that line 89 computes
NetFloat(d) ==
    LET st == calculate_work_stats(d.clock_in, d.clock_out, d.break_start, d.break_end)
        brk == BreakMinutes(d.break_start, d.break_end)
    IN IF st[1] = 0 THEN FloatZero
       ELSE IF brk = 0 THEN FloatOf(st[1])
       ELSE FloatSubMax0(FloatOf(st[1] + brk), FloatOf(brk))

\* `work_hours = 0.0; for log in logs: ... work_hours += net`, lines 549-553,
\* and the same loop of the admin preview, lines 647-659
RECURSIVE WorkHours(_)
WorkHours(ls) ==
    IF ls = << >> THEN FloatZero
    ELSE FloatAdd(WorkHours(SubSeq(ls, 1, Len(ls) - 1)), NetFloat(ls[Len(ls)]))

\* get_employee_by_id found no document
NoEmployee == [found |-> FALSE, salary_type |-> "", salary |-> NoneFloat]

\* emp.get('salary', 0)
SalaryOf(e) == IF e.salary = NoneFloat THEN 0 ELSE e.salary

\* `int(work_hours * emp.get('salary', 0))`, line 559
HourlyPay(hours, rate) == IntOfProduct(hours, rate)

\* `est_pay = emp.get('salary', 0)`, line 557
MonthlyPay(e, hours) == SalaryOf(e)

\* lines 555-559; salary_type "monthly" stands for the label of the monthly
\* pay basis, any other label takes the hourly branch
EstimatePay(e, hours) ==
    IF e.found /\ e.salary_type = "monthly" THEN MonthlyPay(e, hours)
    ELSE IF e.found THEN HourlyPay(hours, SalaryOf(e))
    ELSE 0

---------------------------------------------------------------------------
(* Inputs *)

\* 00:00, the end and the start of the night window, and the times of the
\* documented examples (02:00, 09:00, 18:00, 23:00)
BoundaryTimes == {0, NIGHT_END_HOUR * 60, NIGHT_START_HOUR * 60}
SampleTimes == {120, 540, 1080, 1380}

ClockTimes == {(b + d + MinutesPerDay) % MinutesPerDay :
                  b \in BoundaryTimes, d \in (0 - Slack)..Slack} \cup SampleTimes

\* strings that are not of the two-digit HH:MM form
OddStrings == {<<"9", ":", "5">>, <<"2", "4", ":", "0", "0">>,
               <<"1", "2", ":", "6", "0">>, <<"a", "b", ":", "c", "d">>,
               <<"0", "9", "0", "0">>}

ClockInputs == {None, EmptyStr} \cup {strftime_HM(t) : t \in ClockTimes} \cup OddStrings

BreakInputs == {None, EmptyStr} \cup {strftime_HM(t) : t \in {1, 720, 780, 1410}}
                   \cup {<<"9", ":", "5">>, <<"1", "2", ":", "6", "0">>}

IdleStats == /\ clock_in = None /\ clock_out = None
             /\ break_start = None /\ break_end = None
             /\ stats = << >>

IdleFormat == val = NoneFloat /\ formatted = EmptyStr

IdlePayroll == /\ emp = NoEmployee /\ logs = << >>
               /\ work_hours = FloatZero /\ est_pay = 0

IdleStore == attendance = << >> /\ session = << >>

\* most documents that the collection holds in the model
MaxDocs == 2

IdleReport == /\ year = 0 /\ month = 0 /\ records = << >>
              /\ last_day = 0 /\ att_map = << >> /\ day = 0
              /\ total_net = 0 /\ total_over = 0 /\ total_night = 0
              /\ rows = << >> /\ totals_row = << >>

---------------------------------------------------------------------------
(* A call of calculate_work_stats *)

InitStats ==
    /\ pc = "calc"
    /\ clock_in \in ClockInputs /\ clock_out \in ClockInputs
    /\ break_start \in BreakInputs /\ break_end \in BreakInputs
    /\ stats = << >>
    /\ IdleFormat /\ IdleReport /\ IdlePayroll /\ IdleStore

CalcStats ==
    /\ pc = "calc"
    /\ stats' = calculate_work_stats(clock_in, clock_out, break_start, break_end)
    /\ pc' = "calc_done"
    /\ UNCHANGED <<clock_in, clock_out, break_start, break_end, formatVars, reportVars,
                   payrollVars, storeVars>>

NextStats == CalcStats

SpecStats == InitStats /\ [][NextStats]_vars

---------------------------------------------------------------------------
(* A call of format_hour *)

InitFormat ==
    /\ pc = "format"
    /\ val \in (0..MaxFormatMinutes) \cup {NoneFloat}
    /\ formatted = EmptyStr
    /\ IdleStats /\ IdleReport /\ IdlePayroll /\ IdleStore

FormatHour ==
    /\ pc = "format"
    /\ formatted' = format_hour(val)
    /\ pc' = "format_done"
    /\ UNCHANGED <<val, statsVars, reportVars, payrollVars, storeVars>>

NextFormat == FormatHour

SpecFormat == InitFormat /\ [][NextFormat]_vars

---------------------------------------------------------------------------
(* Properties of calculate_work_stats *)

Absent(s) == s = None \/ s = EmptyStr

\* the strict two-digit 24-hour form HH:MM
StrictHHMM(s) ==
    /\ ~Absent(s)
    /\ Len(s) = 5
    /\ s[3] = ":"
    /\ \A i \in {1, 2, 4, 5} : IsDigit(s[i])
    /\ DigitVal(s[1]) * 10 + DigitVal(s[2]) <= 23
    /\ DigitVal(s[4]) * 10 + DigitVal(s[5]) <= 59

\* the minute of the day that a strict HH:MM string denotes
ClockMinutes(s) == (DigitVal(s[1]) * 10 + DigitVal(s[2])) * 60
                       + DigitVal(s[4]) * 10 + DigitVal(s[5])

\* span(a, b): b - a, plus 24 h when b is earlier than a
Span(a, b) == IF b >= a THEN b - a ELSE b - a + MinutesPerDay

\* the break of an optional pair of strict times
PairBreak(bs, be) == IF StrictHHMM(bs) /\ StrictHHMM(be)
                     THEN Span(ClockMinutes(bs), ClockMinutes(be)) ELSE 0

CalcDone == pc = "calc_done"

Overlap(lo, hi, wlo, whi) == Max(0, Min(hi, whi) - Max(lo, wlo))

\* minutes of [a, a + span) inside the night window 22:00-05:00 of the base
\* day, of the night that follows it, and of the night after that
ClosedFormNight(a, b) ==
    LET lo == a
        hi == a + Span(a, b)
    IN Overlap(lo, hi, 0, 5 * 60)
         + Overlap(lo, hi, 22 * 60, MinutesPerDay + 5 * 60)
         + Overlap(lo, hi, MinutesPerDay + 22 * 60, 2 * MinutesPerDay)

\* C2: for well-formed clock_in and clock_out and any break inputs, the night
\* hours counted minute by minute equal the closed-form overlap of
\* [clock_in, clock_out) with the night window; the break is not subtracted.
Thm_C2_NightClosedForm ==
    (CalcDone /\ StrictHHMM(clock_in) /\ StrictHHMM(clock_out))
    => /\ Len(stats) = 3
       /\ stats[3] = ClosedFormNight(ClockMinutes(clock_in), ClockMinutes(clock_out))

\* 23:00-02:00 with a break inside the night: 3 night hours, fewer net hours
Wit_C2_NightKeepsBreak ==
    /\ CalcDone
    /\ clock_in = strftime_HM(1380) /\ clock_out = strftime_HM(120)
    /\ break_start = strftime_HM(1410) /\ break_end = strftime_HM(1)
    /\ stats[3] = 180
    /\ stats[1] = 149

\* C3: when clock_in or clock_out is None or the empty string the result is
\* (0.0, 0.0, 0.0), whatever the other three inputs are, and nothing is raised.
Thm_C3_MissingPairZero ==
    (CalcDone /\ (Absent(clock_in) \/ Absent(clock_out)))
    => stats = <<0, 0, 0>>

\* clock_in 09:00 without a clock_out, break recorded
Wit_C3_ForgotClockOut ==
    /\ CalcDone
    /\ clock_in = strftime_HM(540) /\ clock_out = None
    /\ StrictHHMM(break_start) /\ StrictHHMM(break_end)
    /\ stats = <<0, 0, 0>>

\* C4: for every input, overtime = max(0, net - 7.5 h), net being the first
\* component of the same result; so overtime is 0 when net <= 7.5 h and
\* overtime never exceeds net.
Thm_C4_Overtime ==
    CalcDone
    => /\ Len(stats) = 3
       /\ stats[2] = Max(0, stats[1] - 450)
       /\ stats[1] <= 450 => stats[2] = 0
       /\ stats[2] <= stats[1]

\* 22:00-09:00 without a break: 11 h net, 3.5 h overtime
Wit_C4_OvertimeWorked ==
    /\ CalcDone
    /\ clock_in = strftime_HM(1320) /\ clock_out = strftime_HM(540)
    /\ Absent(break_start)
    /\ stats[1] = 660 /\ stats[2] = 210

\* a malformed field: present, but not of the strict form
Malformed(s) == ~Absent(s) /\ ~StrictHHMM(s)

\* C5 as stated: every string that is not strict two-digit HH:MM counts as an
\* absent field: in clock_in or clock_out it gives (0.0, 0.0, 0.0), in
\* break_start or break_end it gives break duration 0; nothing is raised.
Cex_C5_StrictOrAbsent ==
    CalcDone
    => /\ Len(stats) = 3
       /\ (Malformed(clock_in) \/ Malformed(clock_out)) => stats = <<0, 0, 0>>
       /\ (/\ StrictHHMM(clock_in) /\ StrictHHMM(clock_out)
           /\ Malformed(break_start) \/ Malformed(break_end))
          => stats[1] = Span(ClockMinutes(clock_in), ClockMinutes(clock_out))

\* the ways of writing a number below 100 that %H and %M read: two digits,
\* or one digit when it is below 10
Spellings(n) == {Pad2(n)} \cup (IF n < 10 THEN {Decimal(n)} ELSE {})

\* every string that denotes an hour 0..23 and a minute 0..59 in this way
AcceptedStrings ==
    UNION {{hs \o <<":">> \o ms : hs \in Spellings(h), ms \in Spellings(m)} :
              h \in 0..23, m \in 0..59}

Accepted(s) == s \in AcceptedStrings
Rejected(s) == ~Absent(s) /\ ~Accepted(s)

\* the minute of the day that an accepted string denotes
SpelledMinutes(s) ==
    LET i == CHOOSE c \in 1..Len(s) : s[c] = ":"
    IN NumberOf(SubSeq(s, 1, i - 1)) * 60 + NumberOf(SubSeq(s, i + 1, Len(s)))

\* C5 amended: every string that is not an hour 0..23 and a minute 0..59 of one
\* or two digits each, joined by a colon, counts as an absent field: in clock_in
\* or clock_out it gives (0.0, 0.0, 0.0), in break_start or break_end it gives
\* break duration 0, and nothing is raised; a one-digit hour or minute such as
\* "9:5" is read as 09:05.
Thm_C5_RejectedIsAbsent ==
    CalcDone
    => /\ Len(stats) = 3
       /\ (Rejected(clock_in) \/ Rejected(clock_out)) => stats = <<0, 0, 0>>
       /\ (/\ Accepted(clock_in) /\ Accepted(clock_out)
           /\ \/ Rejected(break_start) \/ Rejected(break_end)
              \/ Absent(break_start) \/ Absent(break_end))
          => stats[1] = Span(SpelledMinutes(clock_in), SpelledMinutes(clock_out))

\* clock_in "24:00" with clock_out 18:00
Wit_C5_Hour24Rejected ==
    /\ CalcDone
    /\ clock_in = <<"2", "4", ":", "0", "0">> /\ clock_out = strftime_HM(1080)
    /\ stats = <<0, 0, 0>>

---------------------------------------------------------------------------
(* Properties of format_hour *)

\* C10: zero and None give the empty string; a whole number of minutes m/60
\* gives the two-digit hours m div 60, a colon and the two-digit minutes
\* m mod 60.
Cex_C10_FormatWholeMinutes ==
    pc = "format_done"
    => formatted = IF val = NoneFloat \/ val = 0 THEN EmptyStr
                   ELSE Pad2(val \div 60) \o <<":">> \o Pad2(val % 60)

---------------------------------------------------------------------------
(* A call of generate_monthly_report_excel *)

Years == {0, 1900, 2000, 2023, 2024, 10000}
Months == 0..13

\* the clock fields of the documents: a day shift with a break, a night shift
\* across midnight, a day without clock-out
RecordKinds ==
    {[clock_in |-> strftime_HM(540), clock_out |-> strftime_HM(1080),
      break_start |-> strftime_HM(720), break_end |-> strftime_HM(780)],
     [clock_in |-> strftime_HM(1380), clock_out |-> strftime_HM(120),
      break_start |-> None, break_end |-> None],
     [clock_in |-> strftime_HM(540), clock_out |-> None,
      break_start |-> None, break_end |-> None]}

RecordsOn(y, m) ==
    {[date |-> strftime_Ymd(y, m, d)] @@ k : d \in 1..MaxRecordDay, k \in RecordKinds}

\* get_attendance_range returns the documents sorted by date (line 165); the
\* order of documents of one date is the order of the store
SortedByDate(recs, y, m) ==
    \A i \in 1..(Len(recs) - 1) :
        \E d1 \in 1..MaxRecordDay : \E d2 \in d1..MaxRecordDay :
            /\ recs[i].date = strftime_Ymd(y, m, d1)
            /\ recs[i + 1].date = strftime_Ymd(y, m, d2)

RecordLists(y, m) ==
    {recs \in UNION {[1..n -> RecordsOn(y, m)] : n \in 0..MaxRecords} :
        SortedByDate(recs, y, m)}

InitReport ==
    /\ pc = "report"
    /\ year \in Years /\ month \in Months
    /\ records \in RecordLists(year, month)
    /\ last_day = 0 /\ att_map = << >> /\ day = 0
    /\ total_net = 0 /\ total_over = 0 /\ total_night = 0
    /\ rows = << >> /\ totals_row = << >>
    /\ IdleStats /\ IdleFormat /\ IdlePayroll /\ IdleStore

\* lines 184-271: the header, last_day, att_map and the zeroed totals
ReportSetup ==
    /\ pc = "report"
    /\ last_day' = LastDay(year, month)
    /\ att_map' = AttMap(records)
    /\ total_net' = 0 /\ total_over' = 0 /\ total_night' = 0
    /\ day' = 1
    /\ pc' = "rows"
    /\ UNCHANGED <<year, month, records, rows, totals_row, statsVars, formatVars,
                   payrollVars, storeVars>>

\* lines 273-313: one iteration of the loop over the days
ReportDay ==
    /\ pc = "rows"
    /\ LoopContinues(day, last_day)
    /\ IF DateRaises(year, month, day)
       THEN /\ pc' = "report_raised"
            /\ UNCHANGED <<day, rows, total_net, total_over, total_night>>
       ELSE LET row == DayRow(year, month, day, att_map)
            IN /\ rows' = Append(rows, row)
               /\ total_net' = IF row.filled THEN Accumulate(total_net, row.F)
                                ELSE total_net
               /\ total_over' = IF row.filled THEN Accumulate(total_over, row.I)
                                 ELSE total_over
               /\ total_night' = IF row.filled THEN Accumulate(total_night, row.J)
                                  ELSE total_night
               /\ day' = day + 1
               /\ pc' = "rows"
    /\ UNCHANGED <<year, month, records, last_day, att_map, totals_row,
                   statsVars, formatVars, payrollVars, storeVars>>

\* lines 315-339: the totals row, and the workbook is returned
ReportTotals ==
    /\ pc = "rows"
    /\ ~LoopContinues(day, last_day)
    /\ totals_row' = <<[F |-> total_net, I |-> total_over, J |-> total_night]>>
    /\ pc' = "report_done"
    /\ UNCHANGED <<year, month, records, last_day, att_map, day, rows,
                   total_net, total_over, total_night, statsVars, formatVars,
                   payrollVars, storeVars>>

NextReport == ReportSetup \/ ReportDay \/ ReportTotals

SpecReport == InitReport /\ [][NextReport]_vars

---------------------------------------------------------------------------
(* Properties of generate_monthly_report_excel *)

ReportDone == pc = "report_done"

\* what a day row contributes: its value, or zero when the day had no record
Contribution(v) == IF v = NoneFloat THEN 0 ELSE v

RECURSIVE SumNet(_)
SumNet(rs) == IF rs = << >> THEN 0
              ELSE SumNet(SubSeq(rs, 1, Len(rs) - 1)) + Contribution(rs[Len(rs)].F)

RECURSIVE SumOver(_)
SumOver(rs) == IF rs = << >> THEN 0
               ELSE SumOver(SubSeq(rs, 1, Len(rs) - 1)) + Contribution(rs[Len(rs)].I)

RECURSIVE SumNight(_)
SumNight(rs) == IF rs = << >> THEN 0
                ELSE SumNight(SubSeq(rs, 1, Len(rs) - 1)) + Contribution(rs[Len(rs)].J)

\* C6: the totals of the totals row are the sums over the day rows of the
\* per-day net, overtime and night values; a day without record contributes
\* zero, and without any record the three totals are zero.
Thm_C6_TotalsAreSums ==
    ReportDone
    => /\ totals_row[1].F = SumNet(rows)
       /\ totals_row[1].I = SumOver(rows)
       /\ totals_row[1].J = SumNight(rows)
       /\ records = << >> => totals_row[1] = [F |-> 0, I |-> 0, J |-> 0]

\* February 2024 with a day shift on the 1st and a night shift on the 2nd
Wit_C6_TwoDaysSummed ==
    /\ ReportDone
    /\ year = 2024 /\ month = 2
    /\ Len(records) = 2
    /\ rows[1].F = 480 /\ rows[2].F = 180 /\ rows[3].F = NoneFloat
    /\ totals_row[1] = [F |-> 660, I |-> 30, J |-> 180]

ValidYearMonth(y, m) == y >= 1 /\ y <= 9999 /\ m >= 1 /\ m <= 12

\* a year is a leap year when 4 divides it, except the centuries that 400
\* does not divide
GregorianDays(y, m) ==
    IF m \in {4, 6, 9, 11} THEN 30
    ELSE IF m # 2 THEN 31
    ELSE IF y % 400 = 0 THEN 29
    ELSE IF y % 100 = 0 THEN 28
    ELSE IF y % 4 = 0 THEN 29
    ELSE 28

\* C7: for a valid (year, month) the call returns a worksheet with exactly one
\* day row for each day 1..N in increasing order, N the Gregorian day count of
\* the month, followed by exactly one totals row; it does not raise.
Thm_C7_OneRowPerDay ==
    ValidYearMonth(year, month)
    => /\ pc # "report_raised"
       /\ \A i \in 1..Len(rows) : rows[i].A = i
       /\ Len(rows) <= GregorianDays(year, month)
       /\ totals_row # << >> <=> ReportDone
       /\ ReportDone => /\ Len(rows) = GregorianDays(year, month)
                         /\ Len(totals_row) = 1

\* February of the leap year 2024 has 29 day rows
Wit_C7_LeapFebruary ==
    /\ ReportDone
    /\ year = 2024 /\ month = 2
    /\ Len(rows) = 29 /\ rows[29].A = 29
    /\ Len(totals_row) = 1

\* C8: with an invalid (year, month) the call ends by raising; no workbook is
\* returned, neither for a defaulted month length nor for another month: no
\* row is written, and the loop stands at its first day, whose date raises.
Thm_C8_InvalidMonthRaises ==
    ~ValidYearMonth(year, month)
    => /\ ~ReportDone
       /\ rows = << >> /\ totals_row = << >>
       /\ pc = "rows" => day = 1 /\ last_day >= 1

\* month 13: the month length defaulted to 30, then the call raised
Wit_C8_Month13Raised ==
    /\ pc = "report_raised"
    /\ month = 13 /\ year = 2024
    /\ last_day = 30
    /\ rows = << >>

\* the values that the first record of a date gives
FirstStats(recs, date) ==
    LET r == recs[MinOf(IndexesOf(recs, date))]
    IN calculate_work_stats(r.clock_in, r.clock_out, r.break_start, r.break_end)

RECURSIVE SumFirstNet(_, _)
SumFirstNet(recs, dates) ==
    IF dates = {} THEN 0
    ELSE LET date == CHOOSE x \in dates : TRUE
         IN FirstStats(recs, date)[1] + SumFirstNet(recs, dates \ {date})

\* C9: when several records carry one date, the row of that date and the
\* monthly totals use the first of them in the given order; no record is
\* counted twice and no later record replaces an earlier one.
Cex_C9_FirstRecordWins ==
    ReportDone
    => /\ \A i \in 1..Len(rows) :
             LET date == strftime_Ymd(year, month, i)
             IN IndexesOf(records, date) # {}
                => /\ rows[i].C = GetOrEmpty(records[MinOf(IndexesOf(records, date))].clock_in)
                   /\ <<rows[i].F, rows[i].I, rows[i].J>> = FirstStats(records, date)
       /\ totals_row[1].F = SumFirstNet(records, {records[i].date : i \in 1..Len(records)})

---------------------------------------------------------------------------
(* The payroll estimate of one run of staff_dashboard *)

\* longest list of documents of the month
MaxLogs == 3

Employees ==
    {NoEmployee,
     [found |-> TRUE, salary_type |-> "monthly", salary |-> 300000],
     [found |-> TRUE, salary_type |-> "monthly", salary |-> NoneFloat],
     [found |-> TRUE, salary_type |-> "hourly", salary |-> 1000],
     [found |-> TRUE, salary_type |-> "hourly", salary |-> 1200],
     [found |-> TRUE, salary_type |-> "hourly", salary |-> NoneFloat]}

\* the clock fields of the month's documents: the kinds of the report, a day
\* shift 09:00-17:59 and a long shift 02:00-18:00
LogKinds ==
    RecordKinds \cup
    {[clock_in |-> strftime_HM(540), clock_out |-> strftime_HM(1079),
      break_start |-> None, break_end |-> None],
     [clock_in |-> strftime_HM(120), clock_out |-> strftime_HM(1080),
      break_start |-> None, break_end |-> None]}

InitPayroll ==
    /\ pc = "payroll"
    /\ emp \in Employees
    /\ logs \in UNION {[1..n -> LogKinds] : n \in 0..MaxLogs}
    /\ work_hours = FloatZero /\ est_pay = 0
    /\ IdleStats /\ IdleFormat /\ IdleReport /\ IdleStore

\* lines 537-559
PayrollEstimate ==
    /\ pc = "payroll"
    /\ work_hours' = WorkHours(logs)
    /\ est_pay' = EstimatePay(emp, WorkHours(logs))
    /\ pc' = "payroll_done"
    /\ UNCHANGED <<emp, logs, statsVars, formatVars, reportVars, storeVars>>

NextPayroll == PayrollEstimate

SpecPayroll == InitPayroll /\ [][NextPayroll]_vars

\* the month's total net hours, in exact minutes
RECURSIVE TotalNetMinutes(_)
TotalNetMinutes(ls) ==
    IF ls = << >> THEN 0
    ELSE TotalNetMinutes(SubSeq(ls, 1, Len(ls) - 1))
           + calculate_work_stats(ls[Len(ls)].clock_in, ls[Len(ls)].clock_out,
                                  ls[Len(ls)].break_start, ls[Len(ls)].break_end)[1]

\* C11: a fixed-monthly employee is estimated at the configured salary whatever
\* the records are; an hourly employee at floor(total net hours * hourly rate),
\* without overtime premium.
Cex_C11_PayrollEstimate ==
    (pc = "payroll_done" /\ emp.found /\ emp.salary # NoneFloat)
    => est_pay = IF emp.salary_type = "monthly" THEN emp.salary
                 ELSE (TotalNetMinutes(logs) * emp.salary) \div 60

\* C13: for the same records, the net hours that the payroll estimate and the
\* admin preview accumulate over every fetched record equal the total net
\* hours of the monthly report, also when several records carry one date.
Cex_C13_PayrollEqualsReport ==
    ReportDone => WorkHours(records).m = totals_row[1].F

---------------------------------------------------------------------------
(* The 'attendance' collection, the staff buttons and the admin edit form.  *)
(* A document is a record of its fields, a field being None when the        *)
(* document lacks the key.  The sequence `attendance` is the order in which  *)
(* a query streams the documents, which is the order of their generated ids: *)
(* a new document takes any place in it.  doc_id and created_at are the      *)
(* number of the creation.                                                   *)

InsertAt(docs, i, d) == SubSeq(docs, 1, i - 1) \o <<d>> \o SubSeq(docs, i, Len(docs))

\* db.collection('attendance').add(fields)
AddResults(docs, fields) ==
    LET d == [doc_id |-> Len(docs) + 1, created_at |-> Len(docs) + 1] @@ fields
    IN {InsertAt(docs, i, d) : i \in 1..(Len(docs) + 1)}

\* db.collection('attendance').document(doc_id).update(fields)
UpdateDoc(docs, id, fields) ==
    [i \in 1..Len(docs) |-> IF docs[i].doc_id = id THEN fields @@ docs[i] ELSE docs[i]]

\* what a script run knows of the day's record when none was found
NoRecord == [found |-> FALSE, doc_id |-> 0, clock_in |-> None, clock_out |-> None,
             break_start |-> None, break_end |-> None]

\* get_attendance_today: the first streamed document of the employee and date
get_attendance_today(docs, employee_id, date_str) ==
    LET hits == {i \in 1..Len(docs) :
                    docs[i].employee_id = employee_id /\ docs[i].date = date_str}
    IN IF hits = {} THEN NoRecord
       ELSE LET d == docs[MinOf(hits)]
            IN [found |-> TRUE, doc_id |-> d.doc_id, clock_in |-> d.clock_in,
                clock_out |-> d.clock_out, break_start |-> d.break_start,
                break_end |-> d.break_end]

\* the logged-in employee of the staff sessions and the days at hand
UserId == "e1"
Today == strftime_Ymd(2024, 2, 1)
EditDates == {strftime_Ymd(2024, 2, 1), strftime_Ymd(2024, 2, 2)}

\* what get_current_time_str returns at the presses, and the times that the
\* admin enters in the form
NowTimes == {strftime_HM(540), strftime_HM(1080)}
FormIn == {strftime_HM(600)}
FormOut == {strftime_HM(1140)}

\* the camera input: no photo, or the encoded photo
Photos == {None, <<"p">>}

Buttons == {"clock_in", "clock_out", "break", "resume"}

IdleSession == [at |-> "idle", button |-> "", date |-> EmptyStr, record |-> NoRecord]

IsStaff(s) == s \in {"staff1", "staff2"}
IsAdmin(s) == s = "admin"

\* the reset of a session when its script run has ended (st.rerun or the end
\* of the script)
EndRun(s) == session' = [session EXCEPT ![s] = IdleSession]

\* lines 455-463: a press starts a script run, which first reads the record
StaffLoad(s, b) ==
    /\ pc = "store"
    /\ IsStaff(s) /\ session[s].at = "idle"
    /\ session' = [session EXCEPT ![s] =
                      [at |-> "loaded", button |-> b, date |-> Today,
                       record |-> get_attendance_today(attendance, UserId, Today)]]
    /\ UNCHANGED <<pc, attendance, statsVars, formatVars, reportVars, payrollVars>>

\* lines 485-489: the clock-in button adds when a photo was taken and no
\* clock_in was read
ClockInAdds(photo_b64, rec) == Truthy(photo_b64) /\ ~Truthy(rec.clock_in)

\* lines 484-499
StaffClockIn(s) ==
    /\ pc = "store"
    /\ IsStaff(s) /\ session[s].at = "loaded" /\ session[s].button = "clock_in"
    /\ \E photo_b64 \in Photos, now \in NowTimes :
          IF ClockInAdds(photo_b64, session[s].record)
          THEN /\ Len(attendance) < MaxDocs
               /\ attendance' \in AddResults(attendance,
                      [employee_id |-> UserId, date |-> Today, clock_in |-> now,
                       clock_out |-> None, break_start |-> None, break_end |-> None,
                       photo |-> photo_b64])
          ELSE attendance' = attendance
    /\ EndRun(s)
    /\ UNCHANGED <<pc, statsVars, formatVars, reportVars, payrollVars>>

\* clock_out is written again although it was read
ClockOutWrites_mut(rec) == Truthy(rec.clock_in)

\* lines 503-507
ClockOutWrites(rec) == Truthy(rec.clock_in) /\ ~Truthy(rec.clock_out)

\* lines 502-513
StaffClockOut(s) ==
    /\ pc = "store"
    /\ IsStaff(s) /\ session[s].at = "loaded" /\ session[s].button = "clock_out"
    /\ \E now \in NowTimes :
          attendance' = IF ClockOutWrites(session[s].record)
                        THEN UpdateDoc(attendance, session[s].record.doc_id,
                                       [clock_out |-> now])
                        ELSE attendance
    /\ EndRun(s)
    /\ UNCHANGED <<pc, statsVars, formatVars, reportVars, payrollVars>>

\* line 517: `if doc_id and not break_start`
BreakWrites(rec) == rec.doc_id # 0 /\ ~Truthy(rec.break_start)

\* lines 516-523
StaffBreak(s) ==
    /\ pc = "store"
    /\ IsStaff(s) /\ session[s].at = "loaded" /\ session[s].button = "break"
    /\ \E now \in NowTimes :
          attendance' = IF BreakWrites(session[s].record)
                        THEN UpdateDoc(attendance, session[s].record.doc_id,
                                       [break_start |-> now])
                        ELSE attendance
    /\ EndRun(s)
    /\ UNCHANGED <<pc, statsVars, formatVars, reportVars, payrollVars>>

\* line 527: `if doc_id and break_start and not break_end`
ResumeWrites(rec) ==
    rec.doc_id # 0 /\ Truthy(rec.break_start) /\ ~Truthy(rec.break_end)

\* lines 526-533
StaffResume(s) ==
    /\ pc = "store"
    /\ IsStaff(s) /\ session[s].at = "loaded" /\ session[s].button = "resume"
    /\ \E now \in NowTimes :
          attendance' = IF ResumeWrites(session[s].record)
                        THEN UpdateDoc(attendance, session[s].record.doc_id,
                                       [break_end |-> now])
                        ELSE attendance
    /\ EndRun(s)
    /\ UNCHANGED <<pc, statsVars, formatVars, reportVars, payrollVars>>

\* lines 685-705: the run of the edit page that the submit starts reads the
\* record of the selected employee and date
AdminLoad(s, date_str) ==
    /\ pc = "store"
    /\ IsAdmin(s) /\ session[s].at = "idle"
    /\ session' = [session EXCEPT ![s] =
                      [at |-> "loaded", button |-> "save", date |-> date_str,
                       record |-> get_attendance_today(attendance, UserId, date_str)]]
    /\ UNCHANGED <<pc, attendance, statsVars, formatVars, reportVars, payrollVars>>

\* the break of the record is cleared with the update
SaveData_mut(new_in, new_out, date_str, selected_emp_id) ==
    [clock_in |-> new_in, clock_out |-> new_out, date |-> date_str,
     employee_id |-> selected_emp_id, break_start |-> None, break_end |-> None]

\* `data`, lines 713-718
SaveData(new_in, new_out, date_str, selected_emp_id) ==
    [clock_in |-> new_in, clock_out |-> new_out, date |-> date_str,
     employee_id |-> selected_emp_id]

\* lines 712-727
AdminSave(s) ==
    /\ pc = "store"
    /\ IsAdmin(s) /\ session[s].at = "loaded"
    /\ \E new_in \in FormIn, new_out \in FormOut :
          LET data == SaveData(new_in, new_out, session[s].date, UserId)
          IN IF session[s].record.doc_id # 0
             THEN attendance' = UpdateDoc(attendance, session[s].record.doc_id, data)
             ELSE /\ Len(attendance) < MaxDocs
                  /\ attendance' \in AddResults(attendance,
                         data @@ [break_start |-> None, break_end |-> None,
                                  photo |-> None])
    /\ EndRun(s)
    /\ UNCHANGED <<pc, statsVars, formatVars, reportVars, payrollVars>>

StaffStep(s) ==
    \/ \E b \in Buttons : StaffLoad(s, b)
    \/ StaffClockIn(s)
    \/ StaffClockOut(s)
    \/ StaffBreak(s)
    \/ StaffResume(s)

AdminStep(s) ==
    \/ \E date_str \in EditDates : AdminLoad(s, date_str)
    \/ AdminSave(s)

InitStoreWith(sessions) ==
    /\ pc = "store"
    /\ attendance = << >>
    /\ session = [s \in sessions |-> IdleSession]
    /\ IdleStats /\ IdleFormat /\ IdleReport /\ IdlePayroll

\* two sessions of the employee, on two devices
InitStore == InitStoreWith({"staff1", "staff2"})

NextStore == \E s \in {"staff1", "staff2"} : StaffStep(s)

SpecStore == InitStore /\ [][NextStore]_vars

\* a single session of the employee
InitStaff == InitStoreWith({"staff1"})

NextStaff == StaffStep("staff1")

SpecStaff == InitStaff /\ [][NextStaff]_vars

\* one session of the employee and the admin session
InitEdit == InitStoreWith({"staff1", "admin"})

NextEdit == StaffStep("staff1") \/ AdminStep("admin")

SpecEdit == InitEdit /\ [][NextEdit]_vars

\* C12: for every employee and date the collection holds at most one record,
\* after any interleaving of the clock-in button and the admin edit-save of
\* concurrent sessions.
Cex_C12_OneRecordPerDay ==
    \A i, j \in 1..Len(attendance) :
        (attendance[i].employee_id = attendance[j].employee_id
            /\ attendance[i].date = attendance[j].date) => i = j

HasDoc(docs, id) == \E i \in 1..Len(docs) : docs[i].doc_id = id
DocOf(docs, id) == docs[CHOOSE i \in 1..Len(docs) : docs[i].doc_id = id]
StaffFields == {"clock_in", "clock_out", "break_start", "break_end"}

\* the step is the handler of button b of the staff session
Pressed(b) ==
    /\ session["staff1"].at = "loaded" /\ session["staff1"].button = b
    /\ session'["staff1"].at = "idle"

WritesOnce ==
    LET cur == get_attendance_today(attendance, UserId, Today)
    IN /\ \A i \in 1..Len(attendance) :
             /\ HasDoc(attendance', attendance[i].doc_id)
             /\ \A f \in StaffFields :
                    Truthy(attendance[i][f])
                        => DocOf(attendance', attendance[i].doc_id)[f] = attendance[i][f]
       /\ \A j \in 1..Len(attendance') :
             LET d == attendance'[j]
             IN IF HasDoc(attendance, d.doc_id)
                THEN LET o == DocOf(attendance, d.doc_id)
                     IN /\ d.clock_out # o.clock_out => Truthy(o.clock_in)
                        /\ d.break_end # o.break_end => Truthy(o.break_start)
                ELSE /\ Truthy(d.clock_in) /\ Truthy(d.photo)
                     /\ d.clock_out = None /\ d.break_start = None /\ d.break_end = None
       /\ Pressed("clock_in") /\ Truthy(cur.clock_in) => attendance' = attendance
       /\ Pressed("clock_out") /\ ~(Truthy(cur.clock_in) /\ ~Truthy(cur.clock_out))
             => attendance' = attendance
       /\ Pressed("break") /\ ~(cur.found /\ ~Truthy(cur.break_start))
             => attendance' = attendance
       /\ Pressed("resume")
             /\ ~(cur.found /\ Truthy(cur.break_start) /\ ~Truthy(cur.break_end))
             => attendance' = attendance

\* C14: in a single staff session each of clock_in, clock_out, break_start and
\* break_end, once written, is never changed; clock_out is written only to a
\* record whose clock_in is set, break_start only to an existing record,
\* break_end only to a record whose break_start is set; a record is created
\* with clock_in and the photo only; a press whose guard fails leaves the
\* collection as it was.
Thm_C14_StaffWritesOnce == [][WritesOnce]_vars

\* the day's record has all four times and a further clock-out press, whose
\* guard fails, is being handled
Wit_C14_AllFourWritten ==
    /\ "admin" \notin DOMAIN session /\ "staff2" \notin DOMAIN session
    /\ Len(attendance) = 1
    /\ \A f \in StaffFields : Truthy(attendance[1][f])
    /\ session["staff1"].at = "loaded" /\ session["staff1"].button = "clock_out"

\* the step is the save of the admin edit form
AdminSaved == session["admin"].at = "loaded" /\ session'["admin"].at = "idle"

SaveFrame ==
    AdminSaved =>
        LET rec == session["admin"].record
        IN IF rec.found
           THEN /\ Len(attendance') = Len(attendance)
                /\ \A i \in 1..Len(attendance) :
                      IF attendance[i].doc_id = rec.doc_id
                      THEN /\ \A f \in {"doc_id", "created_at", "break_start",
                                         "break_end", "photo"} :
                                 attendance'[i][f] = attendance[i][f]
                           /\ attendance'[i].date = session["admin"].date
                           /\ attendance'[i].employee_id = UserId
                           /\ attendance'[i].clock_in \in FormIn
                           /\ attendance'[i].clock_out \in FormOut
                      ELSE attendance'[i] = attendance[i]
           ELSE /\ Len(attendance') = Len(attendance) + 1
                /\ \E i \in 1..Len(attendance') :
                      /\ attendance = SubSeq(attendance', 1, i - 1)
                                          \o SubSeq(attendance', i + 1, Len(attendance'))
                      /\ attendance'[i].date = session["admin"].date
                      /\ attendance'[i].employee_id = UserId

\* C15: the save of the admin edit form, when a record of the employee and
\* date was found, changes that record only, and of it only clock_in,
\* clock_out, date and employee_id: break_start, break_end and photo stay;
\* when none was found it adds one record and changes no other.
Thm_C15_SaveFrame == [][SaveFrame]_vars

\* a record that the employee created with a photo and a break has been
\* edited by the admin
Wit_C15_EditedKeepsBreak ==
    /\ "admin" \in DOMAIN session /\ session["admin"].at = "idle"
    /\ \E i \in 1..Len(attendance) :
          /\ Truthy(attendance[i].photo) /\ Truthy(attendance[i].break_start)
          /\ attendance[i].clock_in \in FormIn

====
